---- MODULE Spec2Model ----
(***************************************************************************)
(* A model of todo-lib (src/src/lib.rs): the Todo record, its todo.txt     *)
(* codec (impl FromStr for Todo / impl Display for Todo), the ordered      *)
(* metadata Map, and the Todo methods that change a record.                *)
(*                                                                         *)
(* A Rust String is a sequence of one-character strings, so that split,    *)
(* trim, starts_with and the formatting of numbers are computed and not    *)
(* assumed.                                                                *)
(***************************************************************************)
EXTENDS Integers, Sequences, FiniteSets

VARIABLES
    line,    \* codec: the text handed to Todo::from_str
    res,     \* codec: the Result of Todo::from_str(line)
    out,     \* codec: Todo::to_string() of the parsed record
    pc,      \* position of the run
    data,    \* Map<K, V>::data of the Map under test
    todo,    \* the Todo record the methods act on
    hist,    \* history: the last operation and what it started from
    now,     \* the wall clock: the local date and the time of day
    duedate, \* due.rs: the TodoDate (with its NaiveDateTime) under test
    table    \* the TodoTable: its title and its columns

vars == <<line, res, out, pc, data, todo, hist, now, duedate, table>>

----------------------------------------------------------------------------
(* Bounds of the model. *)

\* Longest input line, in space-separated tokens.
MaxTokens == 3

\* Number of distinct keys offered to the Map under test.
NumKeys == 3

----------------------------------------------------------------------------
(* Strings *)

Whitespace == {" ", "\t", "\n"}

Digits == <<"0", "1", "2", "3", "4", "5", "6", "7", "8", "9">>

Letters == <<"A", "B", "C", "D", "E", "F", "G", "H", "I", "J", "K", "L", "M",
             "N", "O", "P", "Q", "R", "S", "T", "U", "V", "W", "X", "Y", "Z">>

RECURSIVE SplitAcc(_, _, _, _, _)
SplitAcc(s, c, i, cur, acc) ==
    IF i > Len(s) THEN Append(acc, cur)
    ELSE IF s[i] = c THEN SplitAcc(s, c, i + 1, <<>>, Append(acc, cur))
    ELSE SplitAcc(s, c, i + 1, Append(cur, s[i]), acc)

\* str::split(c): every piece between two separators, empty pieces included.
Split(s, c) == SplitAcc(s, c, 1, <<>>, <<>>)

RECURSIVE TrimStart(_)
TrimStart(s) ==
    IF s # <<>> /\ Head(s) \in Whitespace THEN TrimStart(Tail(s)) ELSE s

RECURSIVE TrimEnd(_)
TrimEnd(s) ==
    IF s # <<>> /\ s[Len(s)] \in Whitespace
    THEN TrimEnd(SubSeq(s, 1, Len(s) - 1)) ELSE s

\* str::trim
Trim(s) == TrimEnd(TrimStart(s))

StartsWith(s, p) == Len(s) >= Len(p) /\ SubSeq(s, 1, Len(p)) = p

EndsWith(s, p) ==
    Len(s) >= Len(p) /\ SubSeq(s, Len(s) - Len(p) + 1, Len(s)) = p

\* part.matches(c).count()
CountChar(s, c) == Cardinality({i \in 1..Len(s) : s[i] = c})

\* part.chars().all(|ch| ch.is_whitespace())
AllWhitespace(s) == \A i \in 1..Len(s) : s[i] \in Whitespace

IsDigit(c) == \E i \in 1..10 : Digits[i] = c

DigitVal(c) == (CHOOSE i \in 1..10 : Digits[i] = c) - 1

RECURSIVE ParseNat(_)
ParseNat(s) ==
    IF s = <<>> THEN 0
    ELSE 10 * ParseNat(SubSeq(s, 1, Len(s) - 1)) + DigitVal(s[Len(s)])

RECURSIVE NatToStr(_)
\* "{}" of a non-negative integer
NatToStr(n) ==
    IF n < 10 THEN <<Digits[n + 1]>>
    ELSE NatToStr(n \div 10) \o <<Digits[(n % 10) + 1]>>

RECURSIVE Zeros(_)
Zeros(k) == IF k <= 0 THEN <<>> ELSE <<"0">> \o Zeros(k - 1)

\* "{:0w}" of a non-negative integer
Pad(n, w) == Zeros(w - Len(NatToStr(n))) \o NatToStr(n)

----------------------------------------------------------------------------
(* Option and LocalDate *)

None == [some |-> FALSE]

Some(x) == [some |-> TRUE, val |-> x]

IsLeap(y) == (y % 4 = 0 /\ y % 100 # 0) \/ y % 400 = 0

DaysInMonth(y, m) ==
    IF m = 2 THEN (IF IsLeap(y) THEN 29 ELSE 28)
    ELSE IF m \in {4, 6, 9, 11} THEN 30 ELSE 31

\* LocalDate::from_str of the datetime crate, on its YYYY-MM-DD form: Ok for a
\* calendar date, Err for everything else.
LocalDateFromStr(s) ==
    IF /\ Len(s) = 10
       /\ s[5] = "-" /\ s[8] = "-"
       /\ \A i \in {1, 2, 3, 4, 6, 7, 9, 10} : IsDigit(s[i])
    THEN LET y == ParseNat(SubSeq(s, 1, 4))
             m == ParseNat(SubSeq(s, 6, 7))
             d == ParseNat(SubSeq(s, 9, 10))
         IN  IF m \in 1..12 /\ d \in 1..DaysInMonth(y, m)
             THEN [ok |-> TRUE, date |-> [y |-> y, m |-> m, d |-> d]]
             ELSE [ok |-> FALSE]
    ELSE [ok |-> FALSE]

----------------------------------------------------------------------------
(* Map<K, V>: a vector of (key, value) pairs *)

MapNew == <<>>

MapHas(d, key) == \E i \in 1..Len(d) : d[i][1] = key

\* Map::get: the value of the first pair with that key
MapGet(d, key) ==
    IF MapHas(d, key)
    THEN Some(d[CHOOSE i \in 1..Len(d) :
                    d[i][1] = key /\ \A j \in 1..(i - 1) : d[j][1] # key][2])
    ELSE None

\* A Map::insert that pushes without looking for the key.
MapInsertAlwaysPush(d, key, val) == Append(d, <<key, val>>)

\* Map::insert: overwrite the first pair with that key, else push
MapInsert(d, key, val) ==
    IF MapHas(d, key)
    THEN LET i == CHOOSE i \in 1..Len(d) :
                      d[i][1] = key /\ \A j \in 1..(i - 1) : d[j][1] # key
         IN  [d EXCEPT ![i] = <<key, val>>]
    ELSE Append(d, <<key, val>>)

\* A Map::remove that removes the pair at index 0 whenever the key is found.
MapRemoveFirstPair(d, key) ==
    IF MapHas(d, key) THEN Tail(d) ELSE d

\* Map::remove: the loop keeps the last index whose key matches, and removes it
MapRemove(d, key) ==
    IF MapHas(d, key)
    THEN LET i == CHOOSE i \in 1..Len(d) :
                      d[i][1] = key /\ \A j \in (i + 1)..Len(d) : d[j][1] # key
         IN  SubSeq(d, 1, i - 1) \o SubSeq(d, i + 1, Len(d))
    ELSE d

RECURSIVE MapToString(_)
\* impl Display for Map: " k:v" for every pair, in order
MapToString(d) ==
    IF d = <<>> THEN <<>>
    ELSE <<" ">> \o d[1][1] \o <<":">> \o d[1][2] \o MapToString(Tail(d))

----------------------------------------------------------------------------
(* TodoPriority: "None" or one of the letters A..Z *)

IsLetter(c) == \E i \in 1..26 : Letters[i] = c

\* A try_from that reports MissingParens only when both parentheses are missing.
TryFromPriorityBothMissing(value) ==
    IF ~StartsWith(value, <<"(">>) /\ ~EndsWith(value, <<")">>)
    THEN [ok |-> FALSE, err |-> "MissingParens"]
    ELSE IF Len(value) = 3 /\ IsLetter(value[2])
    THEN [ok |-> TRUE, val |-> value[2]]
    ELSE [ok |-> FALSE, err |-> "InvalidPriority"]

\* impl TryFrom<&str> for TodoPriority
TryFromPriority(value) ==
    IF ~StartsWith(value, <<"(">>) \/ ~EndsWith(value, <<")">>)
    THEN [ok |-> FALSE, err |-> "MissingParens"]
    ELSE IF Len(value) = 3 /\ IsLetter(value[2])
    THEN [ok |-> TRUE, val |-> value[2]]
    ELSE [ok |-> FALSE, err |-> "InvalidPriority"]

\* impl Display for TodoPriority: "(X) " with its trailing space, nothing for None
PriorityToString(p) ==
    IF p = "None" THEN <<>> ELSE <<"(", p, ")", " ">>

----------------------------------------------------------------------------
(* TodoDate: Never, Always or Day(date) *)

Never == [kind |-> "Never"]

Always == [kind |-> "Always"]

Day(date) == [kind |-> "Day", date |-> date]

\* impl Display for TodoDate: the year of a Day is written with "{}"
TodoDateToString(t) ==
    IF t.kind = "Never" THEN <<>>
    ELSE IF t.kind = "Always"
    THEN <<"d", "u", "e", ":", "0", "0", "0", "0", "-", "0", "0", "-", "0", "0">>
    ELSE <<"d", "u", "e", ":">> \o NatToStr(t.date.y) \o <<"-">>
         \o Pad(t.date.m, 2) \o <<"-">> \o Pad(t.date.d, 2)

----------------------------------------------------------------------------
(* Todo *)

\* #[derive(Default)] for Todo
TodoDefault ==
    [title |-> <<>>, completed |-> FALSE, priority |-> "None",
     metadata |-> MapNew, deadline |-> Never, created |-> None,
     completion_date |-> None]

\* Todo::new, with `today` the value of LocalDate::today()
TodoNew(title, deadline, priority, today) ==
    [title |-> title, completed |-> FALSE, priority |-> priority,
     metadata |-> MapNew, deadline |-> deadline, created |-> Some(today),
     completion_date |-> None]

\* "{:04}-{:02}-{:02} " of a date, with its trailing space
DateToString(date) ==
    Pad(date.y, 4) \o <<"-">> \o Pad(date.m, 2) \o <<"-">> \o Pad(date.d, 2)
    \o <<" ">>

\* A Display that writes the completion date whenever it is set.
ToStringAnyCompletion(t) ==
    LET tick == IF t.completed THEN <<"x", " ">> ELSE <<>>
        priority == IF t.priority # "None"
                    THEN PriorityToString(t.priority) ELSE <<>>
        completion == IF t.completion_date.some
                      THEN DateToString(t.completion_date.val) ELSE <<>>
        creation == IF t.created.some
                    THEN DateToString(t.created.val) ELSE <<>>
    IN  Trim(tick \o priority \o completion \o creation \o t.title
             \o <<" ">> \o TodoDateToString(t.deadline)
             \o MapToString(t.metadata))

\* impl Display for Todo
ToString(t) ==
    LET tick == IF t.completed THEN <<"x", " ">> ELSE <<>>
        priority == IF t.priority # "None"
                    THEN PriorityToString(t.priority) ELSE <<>>
        completion == IF t.completion_date.some /\ t.created.some
                      THEN DateToString(t.completion_date.val) ELSE <<>>
        creation == IF t.created.some
                    THEN DateToString(t.created.val) ELSE <<>>
        description == t.title
        deadline == TodoDateToString(t.deadline)
        metadata == MapToString(t.metadata)
    IN  Trim(tick \o priority \o completion \o creation \o description
             \o <<" ">> \o deadline \o metadata)

Due == <<"d", "u", "e">>

\* The due key is resolved but stays in the metadata.
ResolveDueKeepsKey(metadata) ==
    LET date == MapGet(metadata, Due)
    IN  IF date.some /\ LocalDateFromStr(date.val).ok
        THEN [metadata |-> metadata,
              deadline |-> Day(LocalDateFromStr(date.val).date)]
        ELSE [metadata |-> metadata, deadline |-> Never]

\* A resolution that reads due:0000-00-00 as Always.
ResolveDueZeroIsAlways(metadata) ==
    LET date == MapGet(metadata, Due)
    IN  IF date.some /\ LocalDateFromStr(date.val).ok
        THEN [metadata |-> MapRemove(metadata, Due),
              deadline |-> Day(LocalDateFromStr(date.val).date)]
        ELSE IF date.some
                /\ date.val = <<"0", "0", "0", "0", "-", "0", "0", "-", "0", "0">>
        THEN [metadata |-> MapRemove(metadata, Due), deadline |-> Always]
        ELSE [metadata |-> metadata, deadline |-> Never]

\* Todo::from_str, after the loop: a due value that is a date becomes the
\* deadline and leaves the metadata; any other due value stays where it is
ResolveDue(metadata) ==
    LET date == MapGet(metadata, Due)
    IN  IF date.some /\ LocalDateFromStr(date.val).ok
        THEN [metadata |-> MapRemove(metadata, Due),
              deadline |-> Day(LocalDateFromStr(date.val).date)]
        ELSE [metadata |-> metadata, deadline |-> Never]

\* Todo::from_str, the body of `for part in parts`
ParseStep(acc, part) ==
    LET p == TryFromPriority(part)
    IN  IF p.ok THEN [acc EXCEPT !.priority = p.val]
        ELSE IF p.err = "InvalidPriority" THEN [acc EXCEPT !.failed = TRUE]
        ELSE IF LocalDateFromStr(part).ok
        THEN [acc EXCEPT !.completed = acc.created,
                         !.created = Some(LocalDateFromStr(part).date)]
        ELSE IF CountChar(part, ":") = 1
        THEN LET meta == Split(part, ":")
             IN  [acc EXCEPT !.metadata = MapInsert(@, meta[1], meta[2])]
        ELSE IF part # <<>> /\ ~AllWhitespace(part)
        THEN [acc EXCEPT !.description = @ \o <<" ">> \o Trim(part)]
        ELSE acc

RECURSIVE ParseLoop(_, _)
\* `for part in parts`, left at the first BadPriority
ParseLoop(acc, parts) ==
    IF parts = <<>> \/ acc.failed THEN acc
    ELSE ParseLoop(ParseStep(acc, Head(parts)), Tail(parts))

\* impl FromStr for Todo
FromStr(s) ==
    LET marked == StartsWith(s, <<"x", " ">>)
        all == Split(s, " ")
        parts == IF marked THEN Tail(all) ELSE all
        acc == ParseLoop([created |-> None, completed |-> None,
                          priority |-> "None", description |-> <<" ">>,
                          metadata |-> MapNew, failed |-> FALSE], parts)
        due == ResolveDue(acc.metadata)
    IN  IF acc.failed THEN [ok |-> FALSE, err |-> "BadPriority"]
        ELSE [ok |-> TRUE,
              todo |-> [title |-> Trim(acc.description),
                        completed |-> marked,
                        priority |-> acc.priority,
                        metadata |-> due.metadata,
                        deadline |-> due.deadline,
                        created |-> acc.created,
                        completion_date |-> acc.completed]]

----------------------------------------------------------------------------
(* The input lines of the codec: at most MaxTokens tokens of Vocabulary,       *)
(* joined by single spaces.                                                    *)

\* the completion marker
TokX == <<"x">>

\* a priority
TokPriA == <<"(", "A", ")">>

\* parenthesised, not a priority
TokParen == <<"(", "h", "e", "l", "l", "o", ")">>

\* a calendar date
TokDate1 == <<"2", "0", "2", "3", "-", "0", "1", "-", "0", "7">>

\* another calendar date
TokDate2 == <<"2", "0", "2", "2", "-", "1", "2", "-", "3", "0">>

\* date-shaped, not a calendar date
TokBadDate == <<"2", "0", "2", "3", "-", "1", "3", "-", "4", "0">>

\* a literal word
TokWord == <<"f", "o", "o">>

\* a project tag
TokProject == <<"+", "t", "o", "d", "o">>

\* a key:value pair
TokMeta == <<"k", ":", "v">>

\* one ':' and an empty value side
TokMetaNoVal == <<"k", ":">>

\* two ':'
TokTwoColons == <<"a", ":", "b", ":", "c">>

\* due: with a calendar date
TokDueDate == <<"d", "u", "e", ":", "2", "0", "2", "3", "-", "0", "1", "-", "1", "0">>

\* due: with a relative offset
TokDueRel == <<"d", "u", "e", ":", "3", "d">>

\* the empty token, between two adjacent spaces
TokEmpty == <<>>

\* "due:0000-00-00", what Display for TodoDate writes for Always
TokDueAlways ==
    <<"d", "u", "e", ":", "0", "0", "0", "0", "-", "0", "0", "-", "0", "0">>

Vocabulary ==
    {TokX, TokPriA, TokParen, TokDate1,
     TokDate2, TokBadDate, TokWord, TokProject,
     TokMeta, TokMetaNoVal, TokTwoColons, TokDueDate,
     TokDueRel, TokDueAlways, TokEmpty}

RECURSIVE Join(_)
Join(ts) ==
    IF ts = <<>> THEN <<>>
    ELSE IF Len(ts) = 1 THEN ts[1]
    ELSE ts[1] \o <<" ">> \o Join(Tail(ts))

Lines == {Join(ts) : ts \in UNION {[1..n -> Vocabulary] : n \in 0..MaxTokens}}

----------------------------------------------------------------------------
(* The codec: a line is parsed, and the record it yields is formatted. *)

NoResult == [ok |-> FALSE, err |-> "none"]

NoHist == [op |-> "none"]

\* The clock of a run that reads no clock.
NoClock == [date |-> [y |-> 1970, m |-> 1, d |-> 1], time |-> 0]

\* The table of a run that uses no table: no title, no columns.
NoTable == [title |-> <<>>, columns |-> <<>>]

Init ==
    /\ line \in Lines
    /\ res = NoResult
    /\ out = <<>>
    /\ pc = "start"
    /\ data = MapNew
    /\ todo = TodoDefault
    /\ hist = NoHist
    /\ now = NoClock
    /\ duedate = Never
    /\ table = NoTable

\* Todo::from_str(line)
Parse ==
    /\ pc = "start"
    /\ res' = FromStr(line)
    /\ pc' = IF res'.ok THEN "parsed" ELSE "failed"
    /\ UNCHANGED <<line, out, data, todo, hist, now, duedate, table>>

\* todo.completed = true, on the record the parse returned
SetCompleted ==
    /\ pc = "parsed"
    /\ res' = [res EXCEPT !.todo.completed = TRUE]
    /\ pc' = "completed"
    /\ UNCHANGED <<line, out, data, todo, hist, now, duedate, table>>

\* to_string() of the record, as parsed or after completed was set
Format ==
    /\ pc \in {"parsed", "completed"}
    /\ out' = ToString(res.todo)
    /\ pc' = IF pc = "parsed" THEN "formatted" ELSE "reformatted"
    /\ UNCHANGED <<line, res, data, todo, hist, now, duedate, table>>

\* Todo::from_str(out), on the text the record was formatted to
Reparse ==
    /\ pc = "formatted"
    /\ hist' = [op |-> "reparse", res |-> FromStr(out)]
    /\ pc' = IF FromStr(out).ok THEN "reparsed" ELSE "refailed"
    /\ UNCHANGED <<line, res, out, data, todo, now, duedate, table>>

\* to_string() of the record parsed from the formatted text
Renormalise ==
    /\ pc = "reparsed"
    /\ hist' = [op |-> "renormalise", res |-> hist.res,
                out |-> ToString(hist.res.todo)]
    /\ pc' = "renormalised"
    /\ UNCHANGED <<line, res, out, data, todo, now, duedate, table>>

Next == Parse \/ SetCompleted \/ Format \/ Reparse \/ Renormalise

Spec == Init /\ [][Next]_vars

----------------------------------------------------------------------------
(* What the record format says of a line, token by token.  These read the    *)
(* line itself and none of the parser's results.                              *)

Marked(l) == StartsWith(l, <<"x", " ">>)

\* The token at index i, or the empty token past the end.
Tok(ts, i) == IF i \in 1..Len(ts) THEN ts[i] ELSE <<>>

Paren(t) == StartsWith(t, <<"(">>) /\ EndsWith(t, <<")">>)

IsPriTok(t) == Len(t) = 3 /\ Paren(t) /\ IsLetter(t[2])

DateShaped(t) ==
    /\ Len(t) = 10
    /\ t[5] = "-" /\ t[8] = "-"
    /\ \A i \in {1, 2, 3, 4, 6, 7, 9, 10} : IsDigit(t[i])

IsDateTok(t) == DateShaped(t) /\ LocalDateFromStr(t).ok

DateOf(t) == LocalDateFromStr(t).date

OneColon(t) == CountChar(t, ":") = 1

KeySide(t) == Split(t, ":")[1]

ValSide(t) == Split(t, ":")[2]

\* exactly one ':' and a non-empty text on both sides of it
IsPairTok(t) == OneColon(t) /\ KeySide(t) # <<>> /\ ValSide(t) # <<>>

IsDueTok(t) == OneColon(t) /\ KeySide(t) = Due

IsWordTok(t) ==
    t # <<>> /\ CountChar(t, ":") = 0 /\ ~Paren(t) /\ ~DateShaped(t)

\* Index of the token in the priority position: the first one, or the one
\* right after the marker.
PriPos(l) == IF Marked(l) THEN 2 ELSE 1

\* Index of the first date position: after the marker and the priority.
DatePos(l) ==
    IF IsPriTok(Tok(Split(l, " "), PriPos(l))) THEN PriPos(l) + 1 ELSE PriPos(l)

\* Number of calendar dates at the date positions, counted up to three.
LeadingDates(l) ==
    LET ts == Split(l, " ")
        i == DatePos(l)
    IN  IF ~IsDateTok(Tok(ts, i)) THEN 0
        ELSE IF ~IsDateTok(Tok(ts, i + 1)) THEN 1
        ELSE IF ~IsDateTok(Tok(ts, i + 2)) THEN 2
        ELSE 3

RECURSIVE SkipWords(_, _)
SkipWords(ts, i) ==
    IF i <= Len(ts) /\ IsWordTok(ts[i]) THEN SkipWords(ts, i + 1) ELSE i

\* A line in the order of the record format:
\*   ["x "] [priority] [date [date]] words... [due:DATE] [key:value ...]
\* every token non-empty, the keys distinct and none of them `due`.
Canonical(l) ==
    LET ts == Split(l, " ")
        i3 == DatePos(l) + (IF LeadingDates(l) > 2 THEN 2 ELSE LeadingDates(l))
        i4 == SkipWords(ts, i3)
        i5 == IF IsDueTok(Tok(ts, i4)) /\ IsDateTok(ValSide(Tok(ts, i4)))
              THEN i4 + 1 ELSE i4
    IN  /\ l # <<>>
        /\ \A i \in i5..Len(ts) : IsPairTok(ts[i]) /\ KeySide(ts[i]) # Due
        /\ \A i, j \in i5..Len(ts) : KeySide(ts[i]) = KeySide(ts[j]) => i = j

\* No empty token: no space at either end, no two adjacent spaces.
WellSpaced(l) == \A i \in 1..Len(Split(l, " ")) : Split(l, " ")[i] # <<>>

\* The tokens the parser's loop is given: all but the marker.
Parts(l) == IF Marked(l) THEN Tail(Split(l, " ")) ELSE Split(l, " ")

HasDueTok(l) == \E i \in 1..Len(Parts(l)) : IsDueTok(Parts(l)[i])

\* The value of the last due:<v> token of the line.
DueValue(l) ==
    LET ps == Parts(l)
        i == CHOOSE i \in 1..Len(ps) :
                 IsDueTok(ps[i]) /\ \A j \in (i + 1)..Len(ps) : ~IsDueTok(ps[j])
    IN  ValSide(ps[i])

\* <N>d: digits followed by a 'd'
IsRelative(v) ==
    /\ Len(v) >= 2
    /\ v[Len(v)] = "d"
    /\ \A i \in 1..(Len(v) - 1) : IsDigit(v[i])

RECURSIVE AddDays(_, _)
\* The calendar date n days after `date`.
AddDays(date, n) ==
    IF n = 0 THEN date
    ELSE IF date.d < DaysInMonth(date.y, date.m)
    THEN AddDays([date EXCEPT !.d = @ + 1], n - 1)
    ELSE IF date.m < 12
    THEN AddDays([date EXCEPT !.m = @ + 1, !.d = 1], n - 1)
    ELSE AddDays([y |-> date.y + 1, m |-> 1, d |-> 1], n - 1)

RECURSIVE JoinNonEmpty(_)
\* The non-empty groups, one space between two of them.
JoinNonEmpty(gs) ==
    IF gs = <<>> THEN <<>>
    ELSE IF Head(gs) = <<>> THEN JoinNonEmpty(Tail(gs))
    ELSE IF JoinNonEmpty(Tail(gs)) = <<>> THEN Head(gs)
    ELSE Head(gs) \o <<" ">> \o JoinNonEmpty(Tail(gs))

\* The groups of a record, each without a space of its own at either end.
Groups(t) ==
    << IF t.completed THEN <<"x">> ELSE <<>>,
       Trim(PriorityToString(t.priority)),
       IF t.completion_date.some /\ t.created.some
       THEN Trim(DateToString(t.completion_date.val)) ELSE <<>>,
       IF t.created.some THEN Trim(DateToString(t.created.val)) ELSE <<>>,
       t.title,
       TodoDateToString(t.deadline),
       Trim(MapToString(t.metadata)) >>

----------------------------------------------------------------------------
(* Claims on the codec, under Spec *)

\* C1: round trip. For every accepted line in the order of the record format
\* (marker, priority, dates, words and tags, due:, key:value), formatting the
\* parsed record gives the line back, character for character.
C1_RoundTrip ==
    (pc = "formatted" /\ Canonical(line)) => out = line

\* C2: formatting puts exactly one space between two adjacent non-empty
\* groups, in the order marker, priority, completion date, creation date,
\* description, deadline, metadata, and no space at either end.
C2_SingleSpaces ==
    pc = "formatted" => out = JoinNonEmpty(Groups(res.todo))

\* C3: on a line without empty tokens, the parse fails with BadPriority
\* exactly when the token in the priority position is parenthesised and not
\* one of (A)..(Z); the priority is decided by that token alone, and a
\* parenthesised token at a later position stays in the description.
C3_PriorityPosition ==
    (pc # "start" /\ WellSpaced(line)) =>
        LET ts == Split(line, " ")
            t == Tok(ts, PriPos(line))
        IN  /\ (~res.ok /\ res.err = "BadPriority") <=> (Paren(t) /\ ~IsPriTok(t))
            /\ res.ok => res.todo.priority = (IF IsPriTok(t) THEN t[2] ELSE "None")
            /\ res.ok => \A i \in (PriPos(line) + 1)..Len(ts) :
                   Paren(ts[i]) =>
                       \E j \in 1..Len(Split(res.todo.title, " ")) :
                           Split(res.todo.title, " ")[j] = ts[i]

\* C4: a date-shaped token in a date position that is no calendar date makes
\* the parse fail with BadDate.
C4_BadDate ==
    pc # "start" =>
        LET ts == Split(line, " ")
            i == DatePos(line)
            bad(t) == DateShaped(t) /\ ~IsDateTok(t)
        IN  (bad(Tok(ts, i)) \/ (IsDateTok(Tok(ts, i)) /\ bad(Tok(ts, i + 1))))
                => (~res.ok /\ res.err = "BadDate")

\* C5: on a line without empty tokens: with no leading date, created and
\* completion_date are both None; with one leading date d1, created = d1 and
\* completion_date is None; with two leading dates d1 d2, completion_date = d1
\* and created = d2.
C5_DateAssignment ==
    (pc = "parsed" /\ WellSpaced(line)) =>
        LET ts == Split(line, " ")
            i == DatePos(line)
            t == res.todo
        IN  /\ LeadingDates(line) = 0 =>
                   t.created = None /\ t.completion_date = None
            /\ LeadingDates(line) = 1 =>
                   /\ t.created = Some(DateOf(ts[i]))
                   /\ t.completion_date = None
            /\ LeadingDates(line) = 2 =>
                   /\ t.completion_date = Some(DateOf(ts[i]))
                   /\ t.created = Some(DateOf(ts[i + 1]))

\* C6: the due:<v> token of a line (the last one, when there are several)
\* never makes the parse fail; when <v> is a calendar date the deadline is
\* Day(<v>) and the metadata has no due key; when it is not, the deadline is
\* Never and the metadata holds due = <v>.
C6_DueResolution ==
    (pc # "start" /\ HasDueTok(line)) =>
        LET v == DueValue(line)
            ps == Parts(line)
        IN  /\ res.ok <=> (\A i \in 1..Len(ps) : Paren(ps[i]) => IsPriTok(ps[i]))
            /\ (res.ok /\ IsDateTok(v)) =>
                   /\ res.todo.deadline = Day(DateOf(v))
                   /\ ~MapHas(res.todo.metadata, Due)
            /\ (res.ok /\ ~IsDateTok(v)) =>
                   /\ res.todo.deadline = Never
                   /\ MapGet(res.todo.metadata, Due) = Some(v)

\* C6, its case: a line with a due:<date> token and another pair was parsed;
\* the date is the deadline and the other pair is all the metadata.
C6_Witness ==
    /\ pc = "parsed"
    /\ HasDueTok(line)
    /\ res.todo.deadline = Day([y |-> 2023, m |-> 1, d |-> 10])
    /\ res.todo.metadata = <<<<KeySide(TokMeta), ValSide(TokMeta)>>>>

\* C7: a line with creation date D and due:<N>d has the deadline
\* Day(D + N days), and no due key in its metadata.
C7_RelativeDue ==
    (/\ pc = "parsed"
     /\ HasDueTok(line)
     /\ res.todo.created.some) =>
        LET v == DueValue(line)
        IN  IsRelative(v) =>
                /\ res.todo.deadline =
                       Day(AddDays(res.todo.created.val,
                                   ParseNat(SubSeq(v, 1, Len(v) - 1))))
                /\ ~MapHas(res.todo.metadata, Due)

\* C8: every pair of the metadata comes from a token with exactly one ':' and
\* a non-empty text on both sides; a token with a ':' that is not of this
\* form is in no pair and is a word of the description.
C8_MetadataTokens ==
    pc = "parsed" =>
        LET ps == Parts(line)
            md == res.todo.metadata
            words == Split(res.todo.title, " ")
        IN  /\ \A n \in 1..Len(md) :
                   \E i \in 1..Len(ps) :
                       /\ IsPairTok(ps[i])
                       /\ md[n] = <<KeySide(ps[i]), ValSide(ps[i])>>
            /\ \A i \in 1..Len(ps) :
                   (CountChar(ps[i], ":") >= 1 /\ ~IsPairTok(ps[i])) =>
                       \E j \in 1..Len(words) : words[j] = ps[i]

\* C20: for a record parsed from a line in the order of the record format
\* that has no marker and no completion date, setting completed makes
\* to_string() the line with "x " put before it.
C20_CompleteAddsPrefix ==
    (/\ pc = "reformatted"
     /\ Canonical(line)
     /\ ~Marked(line)
     /\ ~res.todo.completion_date.some) =>
        out = <<"x", " ">> \o line

\* C26: for every line from_str accepts, the text the record is formatted to
\* is accepted too, and formatting the record parsed from it gives that
\* text again.
C26_NormaliseIdempotent ==
    /\ pc # "refailed"
    /\ pc = "renormalised" => hist.out = out

\* C27: the deadline of a parsed record is Never or a Day, never Always; a
\* line whose last due token is due:0000-00-00 parses with the deadline
\* Never and the pair due, 0000-00-00 in the metadata.
C27_NeverAlways ==
    (pc = "parsed" /\ res.ok) =>
        /\ res.todo.deadline.kind \in {"Never", "Day"}
        /\ (HasDueTok(line) /\ DueValue(line) = ValSide(TokDueAlways)) =>
               /\ res.todo.deadline.kind = "Never"
               /\ MapGet(res.todo.metadata, Due) = Some(ValSide(TokDueAlways))

\* C27, its case: a line with a description and due:0000-00-00 was parsed.
C27_Witness ==
    /\ pc = "parsed"
    /\ line = Join(<<TokWord, TokDueAlways>>)
    /\ res.todo.deadline = Never
    /\ res.todo.metadata = <<<<Due, ValSide(TokDueAlways)>>>>

----------------------------------------------------------------------------
(* The Map on its own: any sequence of Map::insert and Map::remove from an   *)
(* empty Map.  hist holds the last call and the data it started from.        *)

MapKeys == 1..NumKeys

MapVals == {"v", "w"}

InitMap ==
    /\ data = MapNew
    /\ hist = [op |-> "new", key |-> 0, val |-> "", prev |-> <<>>]
    /\ pc = "map"
    /\ line = <<>>
    /\ res = NoResult
    /\ out = <<>>
    /\ todo = TodoDefault
    /\ now = NoClock
    /\ duedate = Never
    /\ table = NoTable

Insert(key, val) ==
    /\ data' = MapInsert(data, key, val)
    /\ hist' = [op |-> "insert", key |-> key, val |-> val, prev |-> data]
    /\ UNCHANGED <<line, res, out, pc, todo, now, duedate, table>>

Remove(key) ==
    /\ data' = MapRemove(data, key)
    /\ hist' = [op |-> "remove", key |-> key, val |-> "", prev |-> data]
    /\ UNCHANGED <<line, res, out, pc, todo, now, duedate, table>>

NextMap ==
    \/ \E key \in MapKeys, val \in MapVals : Insert(key, val)
    \/ \E key \in MapKeys : Remove(key)

SpecMap == InitMap /\ [][NextMap]_vars

\* C9: in every Map built from the empty one by insert and remove, no key
\* occurs twice; an insert of a key that is there changes the value of its
\* pair and nothing else, an insert of a new key appends its pair, and a
\* remove takes the pair of the key out and leaves the rest in its order.
C9_MapInvariant ==
    /\ \A i, j \in 1..Len(data) : data[i][1] = data[j][1] => i = j
    /\ (hist.op = "insert" /\ MapHas(hist.prev, hist.key)) =>
           /\ Len(data) = Len(hist.prev)
           /\ \A i \in 1..Len(data) :
                  data[i] = IF hist.prev[i][1] = hist.key
                            THEN <<hist.key, hist.val>> ELSE hist.prev[i]
    /\ (hist.op = "insert" /\ ~MapHas(hist.prev, hist.key)) =>
           data = Append(hist.prev, <<hist.key, hist.val>>)
    /\ hist.op = "remove" =>
           LET Other(pair) == pair[1] # hist.key
           IN  data = SelectSeq(hist.prev, Other)

\* C9, its case: the last call was an insert of a key that was already
\* there, before another pair, with another value.
C9_Witness ==
    /\ hist.op = "insert"
    /\ Len(hist.prev) >= 2
    /\ hist.prev[1][1] = hist.key
    /\ hist.prev[1][2] # hist.val
    /\ data[1] = <<hist.key, hist.val>>

----------------------------------------------------------------------------
(* The Todo methods: a record is made by Todo::default, Todo::new or         *)
(* Todo::from_str, and then changed by set_meta, delete_meta and complete.   *)
(* hist holds the last call; for set_meta, whether its key was new and what  *)
(* to_string() gave before it; a delete_meta of that key right after it      *)
(* keeps both.                                                               *)

\* The values LocalDate::today() takes.
Todays == {[y |-> 2023, m |-> 1, d |-> 16]}

MetaKeys == {<<"k", "e", "y">>, <<"e", "x", "a", "m">>, Due}

MetaVals == {<<"v", "a", "l">>, <<"p", "l", "e">>}

NewTitles == {<<>>, <<"T", "o", "d", "o", " ", "#", "1">>}

NewDeadlines == {Never, Always, Day([y |-> 2000, m |-> 1, d |-> 1])}

NewPriorities == {"None", "B"}

\* Lines of the record format a Todo is parsed from.
SampleLines ==
    {Join(<<TokDate1, TokWord, TokProject, TokDueDate>>),
     Join(<<TokX, TokPriA, TokDate1, TokDate2, TokWord, TokDueDate, TokMeta>>),
     Join(<<TokWord, TokMeta>>)}

\* The records made by Todo::default and Todo::new.
ConstructedTodos ==
    {TodoDefault}
    \cup {TodoNew(title, deadline, priority, today) :
              title \in NewTitles, deadline \in NewDeadlines,
              priority \in NewPriorities, today \in Todays}

InitTodos == ConstructedTodos \cup {FromStr(l).todo : l \in SampleLines}

InitTodo ==
    /\ todo \in InitTodos
    /\ hist = [op |-> "new", key |-> <<>>, fresh |-> FALSE, snap |-> <<>>]
    /\ pc = IF todo \in ConstructedTodos THEN "new" ELSE "parsed"
    /\ line = <<>>
    /\ res = NoResult
    /\ out = <<>>
    /\ data = MapNew
    /\ now = NoClock
    /\ duedate = Never
    /\ table = NoTable

\* Todo::set_meta
SetMeta(key, val) ==
    /\ todo' = [todo EXCEPT !.metadata = MapInsert(@, key, val)]
    /\ hist' = [op |-> "set_meta", key |-> key,
                fresh |-> ~MapHas(todo.metadata, key),
                snap |-> ToString(todo)]
    /\ UNCHANGED <<line, res, out, pc, data, now, duedate, table>>

\* Todo::delete_meta
DeleteMeta(key) ==
    /\ todo' = [todo EXCEPT !.metadata = MapRemove(@, key)]
    /\ hist' = [op |-> "delete_meta", key |-> key,
                fresh |-> hist.op = "set_meta" /\ hist.key = key /\ hist.fresh,
                snap |-> hist.snap]
    /\ UNCHANGED <<line, res, out, pc, data, now, duedate, table>>

\* A complete that sets the flag and not the date.
CompleteFlagOnly(today) ==
    /\ todo' = [todo EXCEPT !.completed = TRUE]
    /\ hist' = [op |-> "complete", key |-> <<>>, fresh |-> FALSE, snap |-> <<>>]
    /\ UNCHANGED <<line, res, out, pc, data, now, duedate, table>>

\* Todo::complete, with `today` the value of LocalDate::today()
Complete(today) ==
    /\ todo' = [todo EXCEPT !.completed = TRUE, !.completion_date = Some(today)]
    /\ hist' = [op |-> "complete", key |-> <<>>, fresh |-> FALSE, snap |-> <<>>]
    /\ UNCHANGED <<line, res, out, pc, data, now, duedate, table>>

NextTodo ==
    \/ \E key \in MetaKeys, val \in MetaVals : SetMeta(key, val)
    \/ \E key \in MetaKeys : DeleteMeta(key)
    \/ \E today \in Todays : Complete(today)

SpecTodo == InitTodo /\ [][NextTodo]_vars

\* Todo::get_meta
GetMeta(t, key) == MapGet(t.metadata, key)

\* C10: after set_meta(k, v) with k not in the metadata and then
\* delete_meta(k), to_string() is what it was before the two calls, and
\* get_meta(k) is None.
C10_SetDeleteRoundTrip ==
    (hist.op = "delete_meta" /\ hist.fresh) =>
        /\ ToString(todo) = hist.snap
        /\ GetMeta(todo, hist.key) = None

\* C10, its case: a key was set on a record that had other metadata and did
\* not have the key, and then deleted.
C10_Witness ==
    /\ hist.op = "delete_meta"
    /\ hist.fresh
    /\ todo.metadata # MapNew
    /\ todo.deadline.kind = "Day"

\* C21: from Todo::new or Todo::default, through any calls of complete,
\* set_meta and delete_meta, a completed record has its completion date; the
\* completion date changes only in complete; and complete changes nothing
\* but completed and completion_date.
C21_Completion ==
    /\ [](pc = "new" => (todo.completed => todo.completion_date.some))
    /\ [][pc = "new" =>
             /\ todo'.completion_date # todo.completion_date
                    => hist'.op = "complete"
             /\ hist'.op = "complete" =>
                    /\ todo'.completed /\ todo'.completion_date.some
                    /\ todo'.title = todo.title
                    /\ todo'.priority = todo.priority
                    /\ todo'.deadline = todo.deadline
                    /\ todo'.created = todo.created
                    /\ todo'.metadata = todo.metadata]_vars

\* C21, its case: a record made by Todo::new was given metadata and then
\* completed.
C21_Witness ==
    /\ pc = "new"
    /\ hist.op = "complete"
    /\ todo.completed
    /\ todo.completion_date.some
    /\ todo.created.some
    /\ todo.metadata # MapNew

----------------------------------------------------------------------------
(* Due dates: a Todo with a deadline, the clock moving on, and the due()     *)
(* predicates read at any moment.  The TodoDate of lib.rs holds a LocalDate; *)
(* the TodoDate of due.rs holds a NaiveDateTime, a date and a time of day.   *)

\* Number of days the clock runs through.
MaxDays == 3

\* Times of day, in seconds since midnight: midnight, noon, the last second.
Times == <<0, 43200, 86399>>

FirstDay == [y |-> 2022, m |-> 12, d |-> 30]

ClockDays == [i \in 1..MaxDays |-> AddDays(FirstDay, i - 1)]

\* The dates a deadline is set to: the days of the clock and a day long past.
DeadlineDays ==
    {ClockDays[i] : i \in 1..MaxDays} \cup {[y |-> 999, m |-> 12, d |-> 31]}

\* due.rs: TodoDate::Day(NaiveDateTime)
DayAt(at) == [kind |-> "Day", at |-> at]

DueRsDates ==
    {Never, Always}
    \cup {DayAt([date |-> d, time |-> Times[i]]) : d \in DeadlineDays, i \in 1..3}

\* The TodoDate of lib.rs for the same day.
LocalTodoDate(t) == IF t.kind = "Day" THEN Day(t.at.date) ELSE t

\* LocalDate <= LocalDate
DateLE(a, b) ==
    \/ a.y < b.y
    \/ a.y = b.y /\ a.m < b.m
    \/ a.y = b.y /\ a.m = b.m /\ a.d <= b.d

\* NaiveDateTime <= NaiveDateTime
NaiveLE(a, b) ==
    \/ a.date # b.date /\ DateLE(a.date, b.date)
    \/ a.date = b.date /\ a.time <= b.time

\* lib.rs, impl IsDue for TodoDate, with `clock` the local time it reads
TodoDateDue(t, clock) ==
    IF t.kind = "Never" THEN FALSE
    ELSE IF t.kind = "Always" THEN TRUE
    ELSE DateLE(t.date, clock.date)

\* due.rs, impl IsDue for TodoDate, with `clock` the local time it reads
NaiveDue(t, clock) ==
    IF t.kind = "Never" THEN FALSE
    ELSE IF t.kind = "Always" THEN TRUE
    ELSE NaiveLE(t.at, clock)

\* A Todo::due that does not look at completed.
TodoDueIgnoresCompleted(t, clock) == TodoDateDue(t.deadline, clock)

\* impl IsDue for Todo
TodoDue(t, clock) == ~t.completed /\ TodoDateDue(t.deadline, clock)

InitDue ==
    /\ now = [date |-> FirstDay, time |-> Times[1]]
    /\ duedate \in DueRsDates
    /\ table = NoTable
    /\ todo \in {TodoNew(<<>>, LocalTodoDate(duedate), "None", now.date)}
                 \cup (IF duedate = Never THEN {TodoDefault} ELSE {})
    /\ hist = [op |-> "new"]
    /\ res = NoResult
    /\ out = <<>>
    /\ pc = "due"
    /\ line = <<>>
    /\ data = MapNew

\* The clock moves to the next time of day, or to midnight of the next day.
Tick ==
    /\ \/ \E i \in 1..2 :
              /\ now.time = Times[i]
              /\ now' = [now EXCEPT !.time = Times[i + 1]]
       \/ \E i \in 1..(MaxDays - 1) :
              /\ now.time = Times[3]
              /\ now.date = ClockDays[i]
              /\ now' = [date |-> ClockDays[i + 1], time |-> Times[1]]
    /\ hist' = [op |-> "tick"]
    /\ UNCHANGED <<line, res, out, pc, data, todo, duedate, table>>

\* Todo::complete at the time of the clock
CompleteNow ==
    /\ ~todo.completed
    /\ todo' = [todo EXCEPT !.completed = TRUE,
                            !.completion_date = Some(now.date)]
    /\ hist' = [op |-> "complete"]
    /\ UNCHANGED <<line, res, out, pc, data, now, duedate, table>>

\* due() of the Todo, of its deadline, and of the deadline of due.rs
CheckDue ==
    /\ res' = [ok |-> TRUE,
               todo |-> TodoDue(todo, now),
               date |-> TodoDateDue(todo.deadline, now),
               naive |-> NaiveDue(duedate, now)]
    /\ hist' = [op |-> "due"]
    /\ UNCHANGED <<line, out, pc, data, todo, now, duedate, table>>

\* to_string() of the deadline
Encode ==
    /\ out' = TodoDateToString(todo.deadline)
    /\ hist' = [op |-> "encode"]
    /\ UNCHANGED <<line, res, pc, data, todo, now, duedate, table>>

\* to_string() of the Todo
Show ==
    /\ out' = ToString(todo)
    /\ hist' = [op |-> "show"]
    /\ UNCHANGED <<line, res, pc, data, todo, now, duedate, table>>

NextDue == Tick \/ CompleteNow \/ CheckDue \/ Encode \/ Show

SpecDue == InitDue /\ [][NextDue]_vars

\* The day of a date as one number: greater for a later day.
DayNumber(date) == date.y * 10000 + date.m * 100 + date.d

\* C11: due() of a Day deadline is true exactly when the deadline's day is
\* today or earlier, at every time of day, for the TodoDate of lib.rs and for
\* the TodoDate of due.rs.
C11_DayDue ==
    (hist.op = "due" /\ duedate.kind = "Day") =>
        /\ res.date <=> DayNumber(duedate.at.date) <= DayNumber(now.date)
        /\ res.naive <=> DayNumber(duedate.at.date) <= DayNumber(now.date)

\* C12: due() of a Todo is false when it is completed, whatever the deadline,
\* false when the deadline is Never, true when it is not completed and the
\* deadline is Always, and in every case !completed && deadline.due().
C12_TodoDue ==
    hist.op = "due" =>
        /\ todo.completed => ~res.todo
        /\ todo.deadline = Never => ~res.todo
        /\ (~todo.completed /\ todo.deadline = Always) => res.todo
        /\ res.todo <=> (~todo.completed /\ res.date)

\* C12, its case: due() was read on a completed Todo whose deadline is Always.
C12_Witness ==
    /\ hist.op = "due"
    /\ todo.completed
    /\ todo.deadline = Always
    /\ ~res.todo

\* C13: a Day deadline is written as due: and the year in 4 digits, the
\* month in 2 digits and the day in 2 digits, each zero-padded.
C13_DayEncoding ==
    (hist.op = "encode" /\ todo.deadline.kind = "Day") =>
        out = <<"d", "u", "e", ":">> \o Pad(todo.deadline.date.y, 4) \o <<"-">>
              \o Pad(todo.deadline.date.m, 2) \o <<"-">>
              \o Pad(todo.deadline.date.d, 2)

\* C28: to_string() writes the completion date only when the completion
\* date and the creation date are both set, and then before the creation
\* date; with a completion date and no creation date it writes no date.
C28_CompletionDateShown ==
    hist.op = "show" =>
        LET dates == SelectSeq(Split(out, " "), DateShaped) IN
        IF todo.created.some /\ todo.completion_date.some
        THEN /\ Len(dates) = 2
             /\ DateOf(dates[1]) = todo.completion_date.val
             /\ DateOf(dates[2]) = todo.created.val
        ELSE IF todo.created.some
        THEN /\ Len(dates) = 1
             /\ DateOf(dates[1]) = todo.created.val
        ELSE dates = <<>>

\* C28, its case: Todo::default() was completed and then written.
C28_Witness ==
    /\ hist.op = "show"
    /\ ~todo.created.some
    /\ todo.completion_date.some
    /\ out = <<"x">>

----------------------------------------------------------------------------
(* TodoPriority of priority.rs: decoding, ordering, inc and dec *)

\* Longest priority string built from ValueChars.
MaxValueLen == 3

ValueChars == {"(", ")", "A", "a"}

\* The strings handed to try_from: every "(X)", every string of ValueChars
\* up to the bound, and two longer ones.
PriorityValues ==
    {<<"(", Letters[i], ")">> : i \in 1..26}
    \cup UNION {[1..n -> ValueChars] : n \in 0..MaxValueLen}
    \cup {<<"(", "A", "B", ")">>, <<"(", "h", "e", "l", "l", "o", ")">>}

\* The variants in the order None, A, .., Z.
LibPriorityOrder ==
    <<"None", "A", "B", "C", "D", "E", "F", "G", "H", "I", "J", "K", "L",
      "M", "N", "O", "P", "Q", "R", "S", "T", "U", "V", "W", "X", "Y", "Z">>

\* priority.rs: the variants of TodoPriority in the order of their declaration
PriorityOrder ==
    <<"None", "Z", "Y", "X", "W", "V", "U", "T", "S", "R", "Q", "P", "O",
      "N", "M", "L", "K", "J", "I", "H", "G", "F", "E", "D", "C", "B", "A">>

\* The position of a variant in the declaration, which #[derive(Ord)] compares.
Discriminant(p) == CHOOSE i \in 1..27 : PriorityOrder[i] = p

\* Ord::cmp of two priorities
PriorityCmp(a, b) ==
    IF Discriminant(a) < Discriminant(b) THEN "Less"
    ELSE IF Discriminant(a) = Discriminant(b) THEN "Equal"
    ELSE "Greater"

\* The arms of the match in inc, in their order: <<variant, new value>>
IncArms ==
    <<<<"None", "None">>, <<"Z", "Y">>, <<"Y", "X">>, <<"X", "W">>,
      <<"W", "V">>, <<"V", "U">>, <<"U", "T">>, <<"T", "S">>, <<"S", "R">>,
      <<"R", "Q">>, <<"Q", "P">>, <<"P", "O">>, <<"O", "N">>, <<"N", "M">>,
      <<"M", "L">>, <<"L", "K">>, <<"K", "J">>, <<"J", "I">>, <<"I", "H">>,
      <<"H", "G">>, <<"G", "F">>, <<"F", "E">>, <<"E", "D">>, <<"D", "C">>,
      <<"C", "B">>, <<"B", "A">>, <<"A", "A">>>>

\* The arms of the match in dec, in their order: <<variant, new value>>
DecArms ==
    <<<<"None", "None">>, <<"Z", "None">>, <<"Y", "Z">>, <<"X", "Y">>,
      <<"W", "X">>, <<"V", "W">>, <<"U", "V">>, <<"T", "U">>, <<"S", "T">>,
      <<"R", "S">>, <<"Q", "R">>, <<"P", "Q">>, <<"O", "P">>, <<"N", "O">>,
      <<"M", "N">>, <<"L", "M">>, <<"K", "L">>, <<"J", "K">>, <<"I", "J">>,
      <<"H", "I">>, <<"G", "H">>, <<"F", "G">>, <<"E", "F">>, <<"D", "E">>,
      <<"C", "D">>, <<"B", "C">>, <<"A", "B">>>>

\* The value of the first arm that matches p.
MatchArm(arms, p) ==
    arms[CHOOSE i \in 1..Len(arms) :
             /\ arms[i][1] = p
             /\ \A j \in 1..(i - 1) : arms[j][1] # p][2]

\* TodoPriority::inc
PriorityInc(p) == MatchArm(IncArms, p)

\* A dec that stops at Z.
PriorityDecStopsAtZ(p) == IF p = "Z" THEN "Z" ELSE MatchArm(DecArms, p)

\* TodoPriority::dec
PriorityDec(p) == MatchArm(DecArms, p)

\* The priority starts as TodoPriority::default(), with a string to decode.
InitPriority ==
    /\ line \in PriorityValues
    /\ res = [ok |-> TRUE, val |-> "None"]
    /\ hist = [op |-> "new"]
    /\ pc = "start"
    /\ out = <<>>
    /\ data = MapNew
    /\ todo = TodoDefault
    /\ now = NoClock
    /\ duedate = Never
    /\ table = NoTable

\* TodoPriority::try_from(line)
Decode ==
    /\ pc = "start"
    /\ res' = TryFromPriority(line)
    /\ hist' = [op |-> "decode"]
    /\ pc' = "decoded"
    /\ UNCHANGED <<line, out, data, todo, now, duedate, table>>

\* try_from(line).cmp(try_from(other)), both decoded
Compare ==
    /\ pc = "decoded"
    /\ res.ok
    /\ \E other \in PriorityValues :
           /\ TryFromPriority(other).ok
           /\ out' = PriorityCmp(res.val, TryFromPriority(other).val)
           /\ hist' = [op |-> "cmp", other |-> other]
    /\ pc' = "compared"
    /\ UNCHANGED <<line, res, data, todo, now, duedate, table>>

\* priority.inc()
Inc ==
    /\ pc \in {"start", "decoded", "stepped"}
    /\ res.ok
    /\ res' = [res EXCEPT !.val = PriorityInc(res.val)]
    /\ hist' = [op |-> "inc", prev |-> res.val]
    /\ pc' = "stepped"
    /\ UNCHANGED <<line, out, data, todo, now, duedate, table>>

\* priority.dec()
Dec ==
    /\ pc \in {"start", "decoded", "stepped"}
    /\ res.ok
    /\ res' = [res EXCEPT !.val = PriorityDec(res.val)]
    /\ hist' = [op |-> "dec", prev |-> res.val]
    /\ pc' = "stepped"
    /\ UNCHANGED <<line, out, data, todo, now, duedate, table>>

NextPriority == Decode \/ Compare \/ Inc \/ Dec

SpecPriority == InitPriority /\ [][NextPriority]_vars

\* The string is "(" at its first character and ")" at its last.
Wrapped(s) == Len(s) >= 1 /\ s[1] = "(" /\ s[Len(s)] = ")"

\* The string is "(X)" for an upper-case letter X.
LetterForm(s) == \E i \in 1..26 : s = <<"(", Letters[i], ")">>

\* The place of a letter in the alphabet, 1 for A and 26 for Z.
Alpha(p) == CHOOSE i \in 1..26 : Letters[i] = p

\* C14: try_from fails with MissingParens exactly when the string does not
\* both start with "(" and end with ")", fails with InvalidPriority exactly
\* when it is so wrapped and is not "(X)" for an upper-case letter X, and for
\* "(X)" succeeds with the priority X.
C14_TryFrom ==
    hist.op = "decode" =>
        /\ res = [ok |-> FALSE, err |-> "MissingParens"] <=> ~Wrapped(line)
        /\ res = [ok |-> FALSE, err |-> "InvalidPriority"]
               <=> (Wrapped(line) /\ ~LetterForm(line))
        /\ LetterForm(line) => res = [ok |-> TRUE, val |-> line[2]]

\* C14, its cases: "()" and "(AB)" are decoded as InvalidPriority, "(A" as
\* MissingParens.
C14_Witness ==
    /\ hist.op = "decode"
    /\ line \in {<<"(", ")">>, <<"(", "A", "B", ")">>}
    /\ res = [ok |-> FALSE, err |-> "InvalidPriority"]

\* C15: the priorities decoded from "(A)" .. "(Z)" are 26 different ranks, and
\* for X before Y in the alphabet the priority of "(X)" compares strictly
\* greater than the priority of "(Y)" under the Ord derived in priority.rs.
C15_Ordering ==
    (hist.op = "cmp" /\ LetterForm(line) /\ LetterForm(hist.other)) =>
        /\ line # hist.other => out # "Equal"
        /\ Alpha(line[2]) < Alpha(hist.other[2]) => out = "Greater"
        /\ Alpha(line[2]) > Alpha(hist.other[2]) => out = "Less"

\* C15, its case: "(A)" was compared with "(Z)".
C15_Witness ==
    /\ hist.op = "cmp"
    /\ line = <<"(", "A", ")">>
    /\ hist.other = <<"(", "Z", ")">>
    /\ out = "Greater"

\* C16: inc leaves None and A as they are and moves every other priority one
\* letter toward A; dec leaves None as it is, turns Z into None and moves
\* every other priority one letter away from A.
C16_IncDec ==
    /\ hist.op = "inc" =>
           IF hist.prev \in {"None", "A"} THEN res.val = hist.prev
           ELSE /\ res.val # "None"
                /\ Alpha(res.val) = Alpha(hist.prev) - 1
    /\ hist.op = "dec" =>
           IF hist.prev = "None" THEN res.val = "None"
           ELSE IF hist.prev = "Z" THEN res.val = "None"
           ELSE /\ res.val # "None"
                /\ Alpha(res.val) = Alpha(hist.prev) + 1

\* C16, its case: dec was applied to Z.
C16_Witness ==
    /\ hist.op = "dec"
    /\ hist.prev = "Z"
    /\ res.val = "None"

----------------------------------------------------------------------------
(* TodoTag: the constructors project and context *)

\* Longest tag name.
MaxNameLen == 3

NameChars == {"a", " ", "\t", "\n"}

TagNames == UNION {[1..n -> NameChars] : n \in 0..MaxNameLen}

Project(name) == [kind |-> "Project", name |-> name]

Context(name) == [kind |-> "Context", name |-> name]

TagContainsWhitespaceError == [ok |-> FALSE, err |-> "TagContainsWhitespace"]

\* tag.chars().any(|ch| ch.is_whitespace())
AnyWhitespace(s) == \E i \in 1..Len(s) : s[i] \in Whitespace

\* A project that refuses a name only for a space in it.
TagProjectSpaceOnly(tag) ==
    IF \E i \in 1..Len(tag) : tag[i] = " " THEN TagContainsWhitespaceError
    ELSE [ok |-> TRUE, val |-> Project(tag)]

\* TodoTag::project
TagProject(tag) ==
    IF AnyWhitespace(tag) THEN TagContainsWhitespaceError
    ELSE [ok |-> TRUE, val |-> Project(tag)]

\* TodoTag::context
TagContext(tag) ==
    IF AnyWhitespace(tag) THEN TagContainsWhitespaceError
    ELSE [ok |-> TRUE, val |-> Context(tag)]

InitTag ==
    /\ line \in TagNames
    /\ res = NoResult
    /\ hist = [op |-> "new"]
    /\ pc = "tag"
    /\ out = <<>>
    /\ data = MapNew
    /\ todo = TodoDefault
    /\ now = NoClock
    /\ duedate = Never
    /\ table = NoTable

\* TodoTag::project(line)
MakeProject ==
    /\ res' = TagProject(line)
    /\ hist' = [op |-> "project"]
    /\ UNCHANGED <<line, out, pc, data, todo, now, duedate, table>>

\* TodoTag::context(line)
MakeContext ==
    /\ res' = TagContext(line)
    /\ hist' = [op |-> "context"]
    /\ UNCHANGED <<line, out, pc, data, todo, now, duedate, table>>

NextTag == MakeProject \/ MakeContext

SpecTag == InitTag /\ [][NextTag]_vars

\* The number of spaces, tabs and newlines in a string.
WhitespaceCount(s) == CountChar(s, " ") + CountChar(s, "\t") + CountChar(s, "\n")

\* C17: project(name) and context(name) fail for every name with a space, a
\* tab or a newline in it, and for every other name succeed with a tag of
\* exactly that name.
C17_TagConstruction ==
    /\ hist.op = "project" =>
           IF WhitespaceCount(line) > 0 THEN ~res.ok
           ELSE res = [ok |-> TRUE, val |-> [kind |-> "Project", name |-> line]]
    /\ hist.op = "context" =>
           IF WhitespaceCount(line) > 0 THEN ~res.ok
           ELSE res = [ok |-> TRUE, val |-> [kind |-> "Context", name |-> line]]

\* C17, its case: project was refused a name whose only whitespace is a tab.
C17_Witness ==
    /\ hist.op = "project"
    /\ line = <<"a", "\t">>
    /\ ~res.ok

----------------------------------------------------------------------------
(* Todo::tags: the tags of a description *)

\* Longest description.
MaxTitleLen == 5

TitleChars == {"+", "@", "a", " ", "\t"}

Titles == UNION {[1..n -> TitleChars] : n \in 0..MaxTitleLen}

\* Result::unwrap
Unwrap(r) == r.val

\* The locals of tags() before the loop.
TagsStart ==
    [set |-> {}, tag |-> <<>>, in_project_tag |-> FALSE,
     in_context_tag |-> FALSE, last_char |-> " "]

\* A loop body that starts a tag at every sigil.
TagsStepAnySigil(st, ch) ==
    LET in_tag == st.in_project_tag \/ st.in_context_tag
        next ==
            IF ch = "+"
            THEN [st EXCEPT !.in_project_tag = TRUE, !.in_context_tag = FALSE]
            ELSE IF ch = "@"
            THEN [st EXCEPT !.in_project_tag = FALSE, !.in_context_tag = TRUE]
            ELSE IF in_tag /\ ch \notin Whitespace
            THEN [st EXCEPT !.tag = Append(st.tag, ch)]
            ELSE IF in_tag /\ ch \in Whitespace
            THEN [st EXCEPT
                      !.set = st.set \cup
                          {IF st.in_project_tag THEN Unwrap(TagProject(st.tag))
                           ELSE Unwrap(TagContext(st.tag))},
                      !.in_project_tag = FALSE,
                      !.in_context_tag = FALSE,
                      !.tag = <<>>]
            ELSE st
    IN  [next EXCEPT !.last_char = ch]

\* The body of the loop of tags(), for one character of the title.
TagsStep(st, ch) ==
    LET in_tag == st.in_project_tag \/ st.in_context_tag
        next ==
            IF ch = "+" /\ st.last_char = " "
            THEN [st EXCEPT !.in_project_tag = TRUE, !.in_context_tag = FALSE]
            ELSE IF ch = "@" /\ st.last_char = " "
            THEN [st EXCEPT !.in_project_tag = FALSE, !.in_context_tag = TRUE]
            ELSE IF in_tag /\ ch \notin Whitespace
            THEN [st EXCEPT !.tag = Append(st.tag, ch)]
            ELSE IF in_tag /\ ch \in Whitespace
            THEN [st EXCEPT
                      !.set = st.set \cup
                          {IF st.in_project_tag THEN Unwrap(TagProject(st.tag))
                           ELSE Unwrap(TagContext(st.tag))},
                      !.in_project_tag = FALSE,
                      !.in_context_tag = FALSE,
                      !.tag = <<>>]
            ELSE st
    IN  [next EXCEPT !.last_char = ch]

RECURSIVE TagsLoop(_, _, _)
TagsLoop(title, i, st) ==
    IF i > Len(title) THEN st
    ELSE TagsLoop(title, i + 1, TagsStep(st, title[i]))

\* Todo::tags: the set as it is when the loop ends
TodoTags(t) == TagsLoop(t.title, 1, TagsStart).set

InitTags ==
    /\ line \in Titles
    /\ todo = TodoNew(line, Never, "None", NoClock.date)
    /\ res = NoResult
    /\ hist = [op |-> "new"]
    /\ pc = "tags"
    /\ out = <<>>
    /\ data = MapNew
    /\ now = NoClock
    /\ duedate = Never
    /\ table = NoTable

\* todo.tags()
Tags ==
    /\ hist.op = "new"
    /\ res' = [ok |-> TRUE, set |-> TodoTags(todo)]
    /\ hist' = [op |-> "tags"]
    /\ UNCHANGED <<line, out, pc, data, todo, now, duedate, table>>

\* The names asked for: whitespace-free, the empty name among them.
QueryNames ==
    {<<>>, <<"a">>, <<"a", "a">>, <<"a", "@", "a">>, <<"a", "+", "a">>,
     <<"@", "a">>, <<"+">>}

\* The locals of has_tag_raw before the loop.
HasTagStart == [tag |-> <<>>, in_tag |-> FALSE, last_char |-> " "]

\* The loop of has_tag_raw from character i on, and the check after it.
RECURSIVE HasTagLoop(_, _, _, _, _)
HasTagLoop(title, i, st, start, t) ==
    IF i > Len(title) THEN st.tag = t
    ELSE LET ch == title[i] IN
         IF ch = start /\ st.last_char = " "
         THEN HasTagLoop(title, i + 1,
                         [st EXCEPT !.in_tag = TRUE, !.last_char = ch], start, t)
         ELSE IF st.in_tag /\ ch \notin Whitespace
         THEN HasTagLoop(title, i + 1,
                         [st EXCEPT !.tag = Append(@, ch), !.last_char = ch],
                         start, t)
         ELSE IF st.in_tag /\ ch \in Whitespace
         THEN IF st.tag = t THEN TRUE
              ELSE HasTagLoop(title, i + 1,
                              [tag |-> <<>>, in_tag |-> FALSE, last_char |-> ch],
                              start, t)
         ELSE HasTagLoop(title, i + 1, [st EXCEPT !.last_char = ch], start, t)

\* Todo::has_tag_raw
HasTagRaw(td, start, t) == HasTagLoop(td.title, 1, HasTagStart, start, t)

\* Todo::has_project_tag
HasProjectTagOf(td, tag) == HasTagRaw(td, "+", tag)

\* Todo::has_context_tag
HasContextTagOf(td, tag) == HasTagRaw(td, "@", tag)

\* todo.has_project_tag(name), asked after todo.tags()
HasProjectTag(name) ==
    /\ hist.op = "tags"
    /\ res' = [ok |-> TRUE, set |-> res.set, has |-> HasProjectTagOf(todo, name)]
    /\ hist' = [op |-> "has_project_tag", name |-> name]
    /\ UNCHANGED <<line, out, pc, data, todo, now, duedate, table>>

\* todo.has_context_tag(name), asked after todo.tags()
HasContextTag(name) ==
    /\ hist.op = "tags"
    /\ res' = [ok |-> TRUE, set |-> res.set, has |-> HasContextTagOf(todo, name)]
    /\ hist' = [op |-> "has_context_tag", name |-> name]
    /\ UNCHANGED <<line, out, pc, data, todo, now, duedate, table>>

NextTags ==
    \/ Tags
    \/ \E name \in QueryNames : HasProjectTag(name)
    \/ \E name \in QueryNames : HasContextTag(name)

SpecTags == InitTags /\ [][NextTags]_vars

\* The space-delimited tokens of a description.
Tokens(title) == Split(title, " ")

\* The part of a string before its first tab or newline.
RECURSIVE BeforeWhitespace(_)
BeforeWhitespace(s) ==
    IF s = <<>> \/ s[1] \in {"\t", "\n"} THEN <<>>
    ELSE <<s[1]>> \o BeforeWhitespace(Tail(s))

\* C18: for every space-delimited token of the description that is "+" or
\* "@" followed by a non-empty name, first, middle or last, tags() has the
\* Project or the Context of that name.
C18_TagsComplete ==
    hist.op = "tags" =>
        \A i \in 1..Len(Tokens(todo.title)) :
            LET tok == Tokens(todo.title)[i] IN
            (Len(tok) >= 2 /\ WhitespaceCount(tok) = 0) =>
                /\ tok[1] = "+" => [kind |-> "Project", name |-> Tail(tok)] \in res.set
                /\ tok[1] = "@" => [kind |-> "Context", name |-> Tail(tok)] \in res.set

\* C19: every tag of tags() has its sigil as the first character of a
\* space-delimited token of the description, and its name is what follows
\* the sigil in that token, inner sigils included.
C19_TagsAtTokenStart ==
    hist.op = "tags" =>
        \A t \in res.set :
            \E i \in 1..Len(Tokens(todo.title)) :
                LET tok == Tokens(todo.title)[i] IN
                /\ tok # <<>>
                /\ tok[1] = (IF t.kind = "Project" THEN "+" ELSE "@")
                /\ t.name = BeforeWhitespace(Tail(tok))

\* C19, its case: in "a+a @a@a " the inner sigils start no tag and the one
\* tag is the Context of "a@a".
C19_Witness ==
    /\ hist.op = "tags"
    /\ \E j \in 1..Len(todo.title) :
           /\ j > 1
           /\ todo.title[j] \in {"+", "@"}
           /\ todo.title[j - 1] = "a"
    /\ res.set = {[kind |-> "Context", name |-> <<"a", "@", "a">>]}

\* C25: for every whitespace-free name, the empty one too, has_project_tag
\* is true exactly when the Project of that name is in tags(), and
\* has_context_tag exactly when the Context of that name is in tags().
C25_TagQueriesAgree ==
    /\ hist.op = "has_project_tag" =>
           (res.has <=> [kind |-> "Project", name |-> hist.name] \in res.set)
    /\ hist.op = "has_context_tag" =>
           (res.has <=> [kind |-> "Context", name |-> hist.name] \in res.set)

----------------------------------------------------------------------------
(* TodoColumn and TodoTable: columns of todos, looked up by title *)

\* Most columns in the table.
MaxCols == 3

\* Most todos in the table.
MaxTodos == 3

ColTitles == {<<"A">>, <<"B">>}

\* The column titles asked for: those of the table and one it never has.
AskedColTitles == ColTitles \cup {<<"C">>}

TodoTitles == {<<"1">>, <<"2">>}

\* The todos added: two with the same title and one with another.
TableTodos ==
    {TodoNew(<<"1">>, Never, "None", NoClock.date),
     TodoNew(<<"1">>, Never, "A", NoClock.date),
     TodoNew(<<"2">>, Never, "None", NoClock.date)}

\* TodoColumn::new
ColumnNew(title) == [todos |-> <<>>, title |-> title]

\* TodoColumn::add
ColumnAdd(col, t) == [col EXCEPT !.todos = Append(@, t)]

\* The index of the first todo with the title, 0 when there is none.
FirstTitled(todos, title) ==
    IF \E i \in 1..Len(todos) : todos[i].title = title
    THEN CHOOSE i \in 1..Len(todos) :
             /\ todos[i].title = title
             /\ \A j \in 1..(i - 1) : todos[j].title # title
    ELSE 0

\* Vec::remove(i)
VecRemove(v, i) == SubSeq(v, 1, i - 1) \o SubSeq(v, i + 1, Len(v))

\* A pop that takes the last todo with the title.
ColumnPopLast(col, title) ==
    LET hits == {i \in 1..Len(col.todos) : col.todos[i].title = title}
        i == CHOOSE k \in hits : \A j \in hits : j <= k
    IN  IF hits = {} THEN [col |-> col, popped |-> None]
        ELSE [col |-> [col EXCEPT !.todos = VecRemove(@, i)],
              popped |-> Some(col.todos[i])]

\* TodoColumn::pop: the column afterwards and the value returned
ColumnPop(col, title) ==
    LET i == FirstTitled(col.todos, title)
    IN  IF i = 0 THEN [col |-> col, popped |-> None]
        ELSE [col |-> [col EXCEPT !.todos = VecRemove(@, i)],
              popped |-> Some(col.todos[i])]

\* TodoColumn::get: the index of the todo the reference points to
ColumnGet(col, title) ==
    LET i == FirstTitled(col.todos, title)
    IN  IF i = 0 THEN None ELSE Some(i)

\* TodoTable::new(None)
TableNew == [title |-> <<"T", "o", "d", "o", "s">>, columns |-> <<>>]

\* columns.iter_mut().find(|col| col.title == title): its index, 0 for None
FindCol(columns, title) ==
    IF \E i \in 1..Len(columns) : columns[i].title = title
    THEN CHOOSE i \in 1..Len(columns) :
             /\ columns[i].title = title
             /\ \A j \in 1..(i - 1) : columns[j].title # title
    ELSE 0

\* TodoTable::add_col
TableAddCol(t, title) ==
    [t EXCEPT !.columns = Append(@, ColumnNew(title))]

\* TodoTable::get_todo: the column and the index of the todo referred to
TableGetTodo(t, title, col_title) ==
    LET c == FindCol(t.columns, col_title)
    IN  IF c = 0 THEN None
        ELSE IF ColumnGet(t.columns[c], title).some
        THEN Some([col |-> c, idx |-> ColumnGet(t.columns[c], title).val])
        ELSE None

\* An add_todo that puts the todo in the last column when none has the title.
TableAddTodoSomewhere(t, td, col_title) ==
    LET c == FindCol(t.columns, col_title)
    IN  IF c # 0 THEN [t EXCEPT !.columns[c] = ColumnAdd(@, td)]
        ELSE IF t.columns = <<>> THEN t
        ELSE [t EXCEPT !.columns[Len(t.columns)] = ColumnAdd(@, td)]

\* TodoTable::add_todo
TableAddTodo(t, td, col_title) ==
    LET c == FindCol(t.columns, col_title)
    IN  IF c = 0 THEN t ELSE [t EXCEPT !.columns[c] = ColumnAdd(@, td)]

\* The loop of move_todo from column i on: the todo found and the to column.
RECURSIVE MoveScan(_, _, _, _, _, _)
MoveScan(columns, i, title, from, to, to_col) ==
    IF i > Len(columns) THEN [todo |-> None, to_col |-> to_col]
    ELSE IF columns[i].title = from
    THEN [todo |-> IF ColumnGet(columns[i], title).some
                   THEN Some(columns[i].todos[ColumnGet(columns[i], title).val])
                   ELSE None,
          to_col |-> to_col]
    ELSE IF columns[i].title = to
    THEN MoveScan(columns, i + 1, title, from, to, Some(i))
    ELSE MoveScan(columns, i + 1, title, from, to, to_col)

\* TodoTable::move_todo: the table afterwards and the value returned
TableMoveTodo(t, title, from, to) ==
    LET found == MoveScan(t.columns, 1, title, from, to, None)
    IN  IF ~found.todo.some \/ ~found.to_col.some
        THEN [after |-> t, moved |-> FALSE]
        ELSE [after |-> [t EXCEPT !.columns[found.to_col.val] =
                                      ColumnAdd(@, found.todo.val)],
              moved |-> TRUE]

\* TodoTable::col(title) and then TodoColumn::pop on the column found
TablePop(t, col_title, title) ==
    LET c == FindCol(t.columns, col_title)
    IN  IF c = 0 THEN [after |-> t, popped |-> None]
        ELSE [after |-> [t EXCEPT !.columns[c] = ColumnPop(@, title).col],
              popped |-> ColumnPop(t.columns[c], title).popped]

RECURSIVE SumLen(_)
SumLen(columns) ==
    IF columns = <<>> THEN 0
    ELSE Len(columns[1].todos) + SumLen(Tail(columns))

\* The number of todos in the table.
TotalTodos(t) == SumLen(t.columns)

InitTable ==
    /\ table = TableNew
    /\ hist = [op |-> "new"]
    /\ res = NoResult
    /\ pc = "table"
    /\ line = <<>>
    /\ out = <<>>
    /\ data = MapNew
    /\ todo = TodoDefault
    /\ now = NoClock
    /\ duedate = Never

AddCol(title) ==
    /\ Len(table.columns) < MaxCols
    /\ table' = TableAddCol(table, title)
    /\ hist' = [op |-> "add_col", col |-> title, prev |-> table]
    /\ res' = NoResult
    /\ UNCHANGED <<line, out, pc, data, todo, now, duedate>>

AddTodo(td, col_title) ==
    /\ TotalTodos(table) < MaxTodos
    /\ table' = TableAddTodo(table, td, col_title)
    /\ hist' = [op |-> "add_todo", col |-> col_title, todo |-> td,
                prev |-> table]
    /\ res' = NoResult
    /\ UNCHANGED <<line, out, pc, data, todo, now, duedate>>

GetTodo(title, col_title) ==
    /\ res' = [ok |-> TRUE, ret |-> TableGetTodo(table, title, col_title)]
    /\ hist' = [op |-> "get_todo", col |-> col_title, title |-> title,
                prev |-> table]
    /\ UNCHANGED <<line, out, pc, data, todo, now, duedate, table>>

MoveTodo(title, from, to) ==
    /\ TotalTodos(TableMoveTodo(table, title, from, to).after) <= MaxTodos
    /\ table' = TableMoveTodo(table, title, from, to).after
    /\ res' = [ok |-> TRUE, ret |-> TableMoveTodo(table, title, from, to).moved]
    /\ hist' = [op |-> "move_todo", from |-> from, to |-> to,
                title |-> title, prev |-> table]
    /\ UNCHANGED <<line, out, pc, data, todo, now, duedate>>

Pop(col_title, title) ==
    /\ table' = TablePop(table, col_title, title).after
    /\ res' = [ok |-> TRUE, ret |-> TablePop(table, col_title, title).popped]
    /\ hist' = [op |-> "pop", col |-> col_title, title |-> title,
                prev |-> table]
    /\ UNCHANGED <<line, out, pc, data, todo, now, duedate>>

NextTable ==
    \/ \E title \in ColTitles : AddCol(title)
    \/ \E td \in TableTodos, col_title \in AskedColTitles : AddTodo(td, col_title)
    \/ \E title \in TodoTitles, col_title \in AskedColTitles :
           GetTodo(title, col_title)
    \/ \E title \in TodoTitles, from \in AskedColTitles, to \in AskedColTitles :
           MoveTodo(title, from, to)
    \/ \E col_title \in AskedColTitles, title \in TodoTitles :
           Pop(col_title, title)

SpecTable == InitTable /\ [][NextTable]_vars

\* The indexes of the columns with a title.
ColsTitled(columns, title) ==
    {i \in 1..Len(columns) : columns[i].title = title}

\* The number of todos with a title in a sequence of todos.
CountTitled(todos, title) ==
    Cardinality({i \in 1..Len(todos) : todos[i].title = title})

\* The table before the call has one column titled from, another one titled
\* to, and the from column holds a todo with the title.
MovePossible ==
    /\ hist.op = "move_todo"
    /\ hist.from # hist.to
    /\ Cardinality(ColsTitled(hist.prev.columns, hist.from)) = 1
    /\ Cardinality(ColsTitled(hist.prev.columns, hist.to)) = 1
    /\ \A c \in ColsTitled(hist.prev.columns, hist.from) :
           CountTitled(hist.prev.columns[c].todos, hist.title) > 0

\* C22: move_todo(title, from, to) returns true and the to column holds the
\* todo whenever the from and to columns exist, are two columns, and from
\* holds a todo with the title, in whichever order the columns were added.
C22_MoveSucceeds ==
    MovePossible =>
        /\ res.ret = TRUE
        /\ \A c \in ColsTitled(table.columns, hist.to) :
               CountTitled(table.columns[c].todos, hist.title) > 0

\* C23: after a move_todo that returned true the todo is in the to column
\* and one less todo of that title is in the from column, and the table
\* holds as many todos as before.
C23_MoveNotCopy ==
    (MovePossible /\ res.ret = TRUE) =>
        /\ \A c \in ColsTitled(table.columns, hist.to) :
               CountTitled(table.columns[c].todos, hist.title)
                   = CountTitled(hist.prev.columns[c].todos, hist.title) + 1
        /\ \A c \in ColsTitled(table.columns, hist.from) :
               CountTitled(table.columns[c].todos, hist.title)
                   = CountTitled(hist.prev.columns[c].todos, hist.title) - 1
        /\ TotalTodos(table) = TotalTodos(hist.prev)

\* C24: pop(title) on a column removes and returns the first todo with the
\* title and leaves the others in their order; with no such todo it returns
\* None and leaves the column as it was.
C24_Pop ==
    (hist.op = "pop" /\ ColsTitled(hist.prev.columns, hist.col) # {}) =>
        LET c == CHOOSE k \in ColsTitled(hist.prev.columns, hist.col) :
                     \A j \in ColsTitled(hist.prev.columns, hist.col) : k <= j
            before == hist.prev.columns[c].todos
            after == table.columns[c].todos
            hits == {i \in 1..Len(before) : before[i].title = hist.title}
        IN  IF hits = {}
            THEN res.ret = None /\ after = before
            ELSE \E i \in hits :
                     /\ \A j \in hits : i <= j
                     /\ res.ret = Some(before[i])
                     /\ Len(after) = Len(before) - 1
                     /\ \A j \in 1..(i - 1) : after[j] = before[j]
                     /\ \A j \in i..Len(after) : after[j] = before[j + 1]

\* C24, its case: a column of three todos, the first and the last with the
\* title popped, and the first was returned.
C24_Witness ==
    /\ hist.op = "pop"
    /\ \E c \in 1..Len(hist.prev.columns) :
           /\ hist.prev.columns[c].title = hist.col
           /\ Len(hist.prev.columns[c].todos) = 3
           /\ hist.prev.columns[c].todos[3].title = hist.title
           /\ hist.prev.columns[c].todos[3] # hist.prev.columns[c].todos[1]
           /\ res.ret = Some(hist.prev.columns[c].todos[1])
           /\ Len(table.columns[c].todos) = 2

\* C29: a move_todo that returns false, an add_todo to a column the table
\* does not have, and a get_todo or a pop that finds nothing leave the
\* columns, their titles and their todos, as they were.
C29_FailedOpsNoOps ==
    /\ (hist.op = "move_todo" /\ res.ret = FALSE) => table = hist.prev
    /\ (hist.op = "add_todo" /\ ColsTitled(hist.prev.columns, hist.col) = {})
           => table = hist.prev
    /\ (hist.op = "get_todo" /\ res.ret = None) => table = hist.prev
    /\ (hist.op = "pop" /\ res.ret = None) => table = hist.prev

\* C29, its case: a todo was added to a column the table does not have, the
\* table having columns with todos in them.
C29_Witness ==
    /\ hist.op = "add_todo"
    /\ ColsTitled(hist.prev.columns, hist.col) = {}
    /\ Len(table.columns) >= 2
    /\ TotalTodos(table) >= 1
    /\ table = hist.prev

====
